---- MODULE Spec2Model ----
(***************************************************************************)
(* Model of the three-card tournament engine of src/server.js: one room,   *)
(* its seated players, the socket handlers that mutate it and the delayed  *)
(* next-hand callback.  Seats are numbered from 0 as in the source; the    *)
(* player of seat s is room.players[s + 1].                                *)
(*                                                                         *)
(* Declared bet amounts are integers: parseInt of a numeric payload.       *)
(* Sockets that are not seated in the room are rejected by every handler   *)
(* before anything is read ("player not found") and are not modelled.      *)
(***************************************************************************)
EXTENDS Integers, Sequences, FiniteSets, TLC

\* ---------------------------------------------------------------- bounds
\* Accepted intents, disconnects and fired callbacks per run.  Everything
\* else is bounded by the program itself: seats by RoomCapacity, balances by
\* the money the players start with and the pots they can win in that many
\* steps.
MaxSteps == 6

\* ------------------------------------------------------ program constants
StartMoney == 10000
Ante == 100
DeckSize == 52
RanksPerSuit == 13
RoomCapacity == 8

\* `undefined` (a field never assigned) and NaN (arithmetic on undefined)
Undefined == -1
NaN == -2
None == -1

VARIABLES
  room,         \* the room object of create-room (server.js 266-294)
  roomOpen,     \* the room is still in the rooms registry (rooms.delete, 654)
  timers,       \* setTimeout callbacks of afterHandEnded not yet fired (239)
  handsDealt,   \* history: startNewHand runs so far
  steps,        \* history: accepted intents, disconnects and callbacks so far
  resolutions,  \* history: resolveHand runs since the last startNewHand
  lastOp        \* history: the last accepted intent or fired callback

vars == <<room, roomOpen, timers, handsDealt, steps, resolutions, lastOp>>

\* ------------------------------------------------------------- utilities
Min(S) == CHOOSE x \in S : \A y \in S : x <= y
Max(S) == CHOOSE x \in S : \A y \in S : x >= y

RECURSIVE SumSeq(_)
SumSeq(q) == IF q = <<>> THEN 0 ELSE Head(q) + SumSeq(Tail(q))

Seats(rm) == 0 .. (Len(rm.players) - 1)
P(rm, s) == rm.players[s + 1]

\* --------------------------------------------------------- cards and deck
\* A card is its index in createDeck's order: suit-major, ranks 2..A.
cardValue(c) == (c % RanksPerSuit) + 2
cardSuit(c) == c \div RanksPerSuit
Card(value, suit) == suit * RanksPerSuit + (value - 2)

createDeck == [i \in 1 .. DeckSize |-> i - 1]

RECURSIVE SortedSeq(_)
SortedSeq(S) == IF S = {} THEN <<>> ELSE <<Min(S)>> \o SortedSeq(S \ {Min(S)})

Reverse(q) == [i \in 1 .. Len(q) |-> q[Len(q) + 1 - i]]

\* The outcomes of shuffleDeck that the model draws from.  Fisher-Yates can
\* produce every permutation of the deck; each entry lists the cards in the
\* order in which they will be popped, the remaining cards follow below them.
DealOrders ==
  << \* K-9-4 twice (a draw), a pair of sevens, a flush
     << Card(13, 0), Card(9, 1), Card(4, 2),
        Card(13, 1), Card(9, 2), Card(4, 3),
        Card(7, 0), Card(7, 1), Card(10, 2),
        Card(12, 3), Card(8, 3), Card(5, 3) >>,
     \* A-2-3 straight, 2-3-4 straight, three fives, 3-4-5 straight
     << Card(14, 0), Card(2, 1), Card(3, 2),
        Card(2, 2), Card(3, 3), Card(4, 0),
        Card(5, 0), Card(5, 1), Card(5, 2),
        Card(3, 0), Card(4, 1), Card(5, 3) >> >>

Shuffles == 1 .. Len(DealOrders)

ShuffledDecks ==
  [k \in Shuffles |->
     LET top == DealOrders[k]
         inTop == {top[i] : i \in 1 .. Len(top)}
         rest == SortedSeq({createDeck[i] : i \in 1 .. DeckSize} \ inTop)
     IN rest \o Reverse(top)]

shuffleDeck(k) == ShuffledDecks[k]

\* ------------------------------------------------------- hand evaluation
HighCard == 1
Pair == 2
Straight == 3
Flush == 4
StraightFlush == 5
ThreeOfAKind == 6

\* evaluateHand of an empty hand: ranks[0] === ranks[1] === ranks[2] are all
\* undefined, so the first branch is taken with value undefined * 100 = NaN.
evaluateHand(cards) ==
  IF Len(cards) < 3 THEN [type |-> ThreeOfAKind, value |-> NaN]
  ELSE
    LET vs == {cardValue(cards[i]) : i \in 1 .. 3}
        v0 == Max(vs)
        v2 == Min(vs)
        v1 == cardValue(cards[1]) + cardValue(cards[2]) + cardValue(cards[3]) - v0 - v2
        isSameSuit == \A i \in 1 .. 3 : cardSuit(cards[i]) = cardSuit(cards[1])
        isStraight == \/ (v0 - v1 = 1 /\ v1 - v2 = 1)
                      \/ (v0 = 14 /\ v1 = 3 /\ v2 = 2)
    IN IF v0 = v1 /\ v1 = v2 THEN [type |-> ThreeOfAKind, value |-> v0 * 100]
       ELSE IF isSameSuit /\ isStraight THEN [type |-> StraightFlush, value |-> v0 * 1000]
       ELSE IF isSameSuit THEN [type |-> Flush, value |-> v0 * 10000 + v1 * 100 + v2]
       ELSE IF isStraight THEN [type |-> Straight, value |-> v0 * 100]
       ELSE IF v0 = v1 THEN [type |-> Pair, value |-> v0 * 100 + v2]
       ELSE IF v1 = v2 THEN [type |-> Pair, value |-> v1 * 100 + v0]
       ELSE [type |-> HighCard, value |-> v0 * 10000 + v1 * 100 + v2]

\* Mutant: the tie-break value is compared before the category.
compareHands_ValueFirst(h1, h2) ==
  IF h1.value > h2.value THEN 1
  ELSE IF h1.value < h2.value THEN -1
  ELSE IF h1.type > h2.type THEN 1
  ELSE IF h1.type < h2.type THEN -1
  ELSE 0

\* Every comparison with NaN is false.
compareHands(h1, h2) ==
  IF h1.type > h2.type THEN 1
  ELSE IF h1.type < h2.type THEN -1
  ELSE IF h1.value # NaN /\ h2.value # NaN /\ h1.value > h2.value THEN 1
  ELSE IF h1.value # NaN /\ h2.value # NaN /\ h1.value < h2.value THEN -1
  ELSE 0

\* ----------------------------------------------------------- turn order
canAct(p) == ~p.folded /\ p.money > 0 /\ ~p.allIn
inHand(p) == ~p.folded /\ p.money > 0

\* Mutant: the scan starts at startIndex itself.
getNextActivePlayerIndex_FromStart(rm, startIndex) ==
  LET n == Len(rm.players)
      hits == {k \in 0 .. (n - 1) : canAct(P(rm, (startIndex + k) % n))}
  IN IF n = 0 \/ hits = {} THEN None ELSE (startIndex + Min(hits)) % n

getNextActivePlayerIndex(rm, startIndex) ==
  LET n == Len(rm.players)
      hits == {k \in 1 .. n : canAct(P(rm, (startIndex + k) % n))}
  IN IF n = 0 \/ hits = {} THEN None ELSE (startIndex + Min(hits)) % n

getFirstPlayerAfterDealer(rm) ==
  LET n == Len(rm.players)
      hits == {k \in 1 .. n : inHand(P(rm, (rm.dealerIndex + k) % n))}
  IN IF n = 0 \/ hits = {} THEN None ELSE (rm.dealerIndex + Min(hits)) % n

\* ------------------------------------------------------------ room state
NewPlayer ==
  [money |-> StartMoney, hand |-> <<>>, viewedCards |-> FALSE, folded |-> FALSE,
   currentBet |-> 0, connected |-> TRUE, allIn |-> FALSE, actedThisRound |-> FALSE]

\* The room built by create-room, its creator seated at 0 as host.
NewRoom ==
  [players |-> <<NewPlayer>>, gameState |-> "waiting", currentRound |-> 0,
   dealerIndex |-> -1, pot |-> 0, currentTurn |-> 0, minBet |-> Ante,
   tournamentRound |-> 0, tournamentPlayers |-> {}, betHistory |-> <<>>,
   lastRaise |-> None, handsPlayed |-> Undefined, startingPlayerCount |-> Undefined]

Host == 0

\* ------------------------------------------------------------ new hand
\* Mutant: the ante is charged in full whatever the balance.
anteOf_Fixed(p) == Ante

\* Math.min(100, p.money)
anteOf(p) == IF p.money < Ante THEN p.money ELSE Ante

\* Mutant: the dealer index is advanced without wrapping.
nextDealer_NoWrap(rm) == rm.dealerIndex + 1

\* (room.dealerIndex + 1) % room.players.length
nextDealer(rm) == (rm.dealerIndex + 1) % Len(rm.players)

startNewHand(rm, k) ==
  LET deck == shuffleDeck(k)
      n == Len(rm.players)
      before(i) == Cardinality({j \in 1 .. (i - 1) : rm.players[j].money > 0})
      popped(i, c) == deck[DeckSize - 3 * before(i) - c]
      deal(i) ==
        LET p == rm.players[i]
            ante == anteOf(p)
        IN IF p.money > 0
           THEN [p EXCEPT !.hand = <<popped(i, 0), popped(i, 1), popped(i, 2)>>,
                          !.viewedCards = FALSE, !.folded = FALSE, !.allIn = FALSE,
                          !.actedThisRound = FALSE, !.money = p.money - ante,
                          !.currentBet = ante]
           ELSE [p EXCEPT !.hand = <<>>, !.viewedCards = FALSE, !.folded = TRUE,
                          !.allIn = FALSE, !.actedThisRound = FALSE, !.currentBet = 0]
      dealt == [i \in 1 .. n |-> deal(i)]
      antes == [i \in 1 .. n |-> rm.players[i].money - dealt[i].money]
      r1 == [rm EXCEPT !.pot = SumSeq(antes),
                       !.minBet = Ante, !.currentRound = 1, !.betHistory = <<>>,
                       !.lastRaise = None, !.players = dealt,
                       !.dealerIndex = nextDealer(rm)]
  IN [r1 EXCEPT !.currentTurn = getFirstPlayerAfterDealer(r1),
                !.handsPlayed = (IF rm.handsPlayed = Undefined THEN 0 ELSE rm.handsPlayed) + 1]

\* ------------------------------------------------- end of hand, tournament
\* Mutant: the hand goes on while one contender is left.
isHandFinished_OffByOne(rm) ==
  LET active == {s \in Seats(rm) : inHand(P(rm, s))}
  IN \/ Cardinality(active) < 1
     \/ {s \in active : ~P(rm, s).allIn /\ P(rm, s).money > 0} = {}

isHandFinished(rm) ==
  LET active == {s \in Seats(rm) : inHand(P(rm, s))}
  IN \/ Cardinality(active) <= 1
     \/ {s \in active : ~P(rm, s).allIn /\ P(rm, s).money > 0} = {}

\* Mutant: players without money (all-in included) stay in the showdown.
handWinners_CountsBroke(rm) ==
  LET active == {s \in Seats(rm) : ~P(rm, s).folded}
      ev(s) == evaluateHand(P(rm, s).hand)
      best == {s \in active : \A t \in active : compareHands(ev(s), ev(t)) >= 0}
      first == Min(best)
  IN IF Cardinality(active) <= 1 THEN active
     ELSE IF best = {} THEN {}
     ELSE {s \in active : ev(s).value = ev(first).value /\ ev(s).value # NaN}

\* The players resolveHand credits.  The stable sort by compareHands puts the
\* lowest seat among the best hands first; the winners are the active players
\* whose tie-break value equals that player's (NaN equals nothing).
handWinners(rm) ==
  LET active == {s \in Seats(rm) : inHand(P(rm, s))}
      ev(s) == evaluateHand(P(rm, s).hand)
      best == {s \in active : \A t \in active : compareHands(ev(s), ev(t)) >= 0}
      first == Min(best)
  IN IF Cardinality(active) <= 1 THEN active
     ELSE IF best = {} THEN {}
     ELSE {s \in active : ev(s).value = ev(first).value /\ ev(s).value # NaN}

resolveHand(rm) ==
  LET winners == handWinners(rm)
      share == IF Cardinality(winners) > 1 THEN rm.pot \div Cardinality(winners) ELSE rm.pot
  IN [rm EXCEPT !.players =
        [i \in 1 .. Len(rm.players) |->
           IF (i - 1) \in winners
           THEN [rm.players[i] EXCEPT !.money = rm.players[i].money + share]
           ELSE rm.players[i]]]

pruneRoster(rm) ==
  [rm EXCEPT !.tournamentPlayers = {s \in rm.tournamentPlayers : P(rm, s).money > 0}]

tournamentEnded(rm) ==
  \/ Cardinality(rm.tournamentPlayers) <= 1
  \/ /\ rm.handsPlayed # Undefined
     /\ rm.startingPlayerCount # Undefined
     /\ rm.handsPlayed >= rm.startingPlayerCount

\* afterHandEnded: the room it leaves and whether it called setTimeout.
afterHandEnded(rm) ==
  LET r1 == pruneRoster(rm)
  IN IF tournamentEnded(r1)
     THEN [room |-> [r1 EXCEPT !.gameState = "ended"], sched |-> FALSE]
     ELSE [room |-> r1, sched |-> TRUE]

\* The tournament-ended message of afterHandEnded, read off the room it leaves:
\* the winner is the first player of the roster, null for an empty roster.
champion(rm) ==
  IF rm.tournamentPlayers = {} THEN None ELSE Min(rm.tournamentPlayers)

\* [...room.players].sort((a, b) => b.money - a.money): the seats by
\* descending money, equal balances in seat order (the sort is stable).
RECURSIVE sortByMoney(_, _)
sortByMoney(rm, S) ==
  IF S = {} THEN <<>>
  ELSE LET top == Min({s \in S : \A t \in S : P(rm, s).money >= P(rm, t).money})
       IN <<top>> \o sortByMoney(rm, S \ {top})

rankings(rm) == sortByMoney(rm, Seats(rm))

\* ------------------------------------------------------- round bookkeeping
isRoundComplete(rm) ==
  \A s \in Seats(rm) : canAct(P(rm, s)) => P(rm, s).actedThisRound

\* Mutant: the round advances whoever is left in the hand.
checkAndAdvanceRound_Always(rm) ==
  LET r1 == [rm EXCEPT !.players = [i \in 1 .. Len(rm.players) |->
                                      [rm.players[i] EXCEPT !.actedThisRound = FALSE]],
                       !.currentRound = rm.currentRound + 1]
  IN [r1 EXCEPT !.currentTurn = getFirstPlayerAfterDealer(r1)]

checkAndAdvanceRound(rm) ==
  IF Cardinality({s \in Seats(rm) : inHand(P(rm, s))}) <= 1 THEN rm
  ELSE LET r1 == [rm EXCEPT !.players = [i \in 1 .. Len(rm.players) |->
                                           [rm.players[i] EXCEPT !.actedThisRound = FALSE]],
                            !.currentRound = rm.currentRound + 1]
       IN [r1 EXCEPT !.currentTurn = getFirstPlayerAfterDealer(r1)]

\* The tail shared by place-bet, fold, all-in and compare-cards: the round
\* check, then the hand check with resolution and afterHandEnded.
finishAction(rm) ==
  LET r1 == IF isRoundComplete(rm) THEN checkAndAdvanceRound(rm) ELSE rm
  IN IF isHandFinished(r1)
     THEN LET a == afterHandEnded(pruneRoster(resolveHand(r1)))
          IN [room |-> a.room, ok |-> TRUE, why |-> "", resolved |-> TRUE, sched |-> a.sched]
     ELSE [room |-> r1, ok |-> TRUE, why |-> "", resolved |-> FALSE, sched |-> FALSE]

reject(rm, msg) ==
  [room |-> rm, ok |-> FALSE, why |-> msg, resolved |-> FALSE, sched |-> FALSE]

accept(rm) ==
  [room |-> rm, ok |-> TRUE, why |-> "", resolved |-> FALSE, sched |-> FALSE]

\* -------------------------------------------------------------- handlers
\* Each handler maps the room and its payload to the room it leaves, whether
\* the intent was accepted, and whether resolveHand and setTimeout ran.

\* Mutant: no half price for unviewed cards.
actualAmountOf_FullPrice(player, declaredAmount) == declaredAmount

\* What a declared amount costs: half price for a player who has not viewed.
actualAmountOf(player, declaredAmount) ==
  IF player.viewedCards THEN declaredAmount ELSE declaredAmount \div 2

\* Mutant: the cards are marked viewed before the turn is checked.
viewCards_MarksBeforeTurnCheck(rm, s) ==
  LET player == P(rm, s)
      r1 == [rm EXCEPT !.players[s + 1].viewedCards = TRUE]
  IN IF player.viewedCards THEN reject(rm, "already viewed")
     ELSE IF rm.currentTurn # s THEN reject(r1, "not your turn")
     ELSE accept(r1)

viewCards(rm, s) ==
  LET player == P(rm, s)
  IN IF player.viewedCards THEN reject(rm, "already viewed")
     ELSE IF rm.currentTurn # s THEN reject(rm, "not your turn")
     ELSE accept([rm EXCEPT !.players[s + 1].viewedCards = TRUE])

placeBet(rm, s, declaredAmount) ==
  LET player == P(rm, s)
      actualAmount == actualAmountOf(player, declaredAmount)
      entry == [seat |-> s, declaredAmount |-> declaredAmount,
                actualAmount |-> actualAmount, viewedCards |-> player.viewedCards]
      r1 == [rm EXCEPT !.players[s + 1].money = player.money - actualAmount,
                       !.players[s + 1].currentBet = player.currentBet + actualAmount,
                       !.players[s + 1].actedThisRound = TRUE,
                       !.pot = rm.pot + actualAmount,
                       !.minBet = IF declaredAmount > rm.minBet THEN declaredAmount
                                  ELSE rm.minBet,
                       !.lastRaise = IF declaredAmount > rm.minBet THEN s
                                     ELSE rm.lastRaise,
                       !.betHistory = Append(rm.betHistory, entry)]
  IN IF player.folded THEN reject(rm, "folded")
     ELSE IF rm.currentTurn # s THEN reject(rm, "not your turn")
     ELSE IF declaredAmount < rm.minBet THEN reject(rm, "below minimum")
     ELSE IF player.money < actualAmount THEN reject(rm, "insufficient balance")
     ELSE finishAction([r1 EXCEPT !.currentTurn = getNextActivePlayerIndex(r1, s)])

fold(rm, s) ==
  LET r1 == [rm EXCEPT !.players[s + 1].folded = TRUE,
                       !.players[s + 1].actedThisRound = TRUE]
  IN IF P(rm, s).folded THEN reject(rm, "folded")
     ELSE IF rm.currentTurn # s THEN reject(rm, "not your turn")
     ELSE finishAction([r1 EXCEPT !.currentTurn = getNextActivePlayerIndex(r1, s)])

\* Mutant: the balance is wagered but not taken from the player.
allIn_BalanceKept(rm, s) ==
  LET player == P(rm, s)
      allInAmount == player.money
      r1 == [rm EXCEPT !.players[s + 1].currentBet = player.currentBet + allInAmount,
                       !.players[s + 1].allIn = TRUE,
                       !.players[s + 1].actedThisRound = TRUE,
                       !.pot = rm.pot + allInAmount,
                       !.minBet = IF allInAmount > rm.minBet THEN allInAmount
                                  ELSE rm.minBet,
                       !.lastRaise = IF allInAmount > rm.minBet THEN s
                                     ELSE rm.lastRaise]
  IN IF player.folded THEN reject(rm, "folded")
     ELSE IF player.allIn THEN reject(rm, "already all-in")
     ELSE IF rm.currentTurn # s THEN reject(rm, "not your turn")
     ELSE finishAction([r1 EXCEPT !.currentTurn = getNextActivePlayerIndex(r1, s)])

\* Mutant: the wagered balance never reaches the pot.
allIn_PotUntouched(rm, s) ==
  LET player == P(rm, s)
      allInAmount == player.money
      r1 == [rm EXCEPT !.players[s + 1].money = 0,
                       !.players[s + 1].currentBet = player.currentBet + allInAmount,
                       !.players[s + 1].allIn = TRUE,
                       !.players[s + 1].actedThisRound = TRUE,
                       !.minBet = IF allInAmount > rm.minBet THEN allInAmount
                                  ELSE rm.minBet,
                       !.lastRaise = IF allInAmount > rm.minBet THEN s
                                     ELSE rm.lastRaise]
  IN IF player.folded THEN reject(rm, "folded")
     ELSE IF player.allIn THEN reject(rm, "already all-in")
     ELSE IF rm.currentTurn # s THEN reject(rm, "not your turn")
     ELSE finishAction([r1 EXCEPT !.currentTurn = getNextActivePlayerIndex(r1, s)])

allIn(rm, s) ==
  LET player == P(rm, s)
      allInAmount == player.money
      r1 == [rm EXCEPT !.players[s + 1].money = 0,
                       !.players[s + 1].currentBet = player.currentBet + allInAmount,
                       !.players[s + 1].allIn = TRUE,
                       !.players[s + 1].actedThisRound = TRUE,
                       !.pot = rm.pot + allInAmount,
                       !.minBet = IF allInAmount > rm.minBet THEN allInAmount
                                  ELSE rm.minBet,
                       !.lastRaise = IF allInAmount > rm.minBet THEN s
                                     ELSE rm.lastRaise]
  IN IF player.folded THEN reject(rm, "folded")
     ELSE IF player.allIn THEN reject(rm, "already all-in")
     ELSE IF rm.currentTurn # s THEN reject(rm, "not your turn")
     ELSE finishAction([r1 EXCEPT !.currentTurn = getNextActivePlayerIndex(r1, s)])

\* Mutant: a duel may be called out of turn.
compareCards_NoTurnCheck(rm, s, target) ==
  LET player == P(rm, s)
      opponent == P(rm, target)
      requiredActual == IF player.viewedCards THEN rm.minBet ELSE rm.minBet \div 2
      result == compareHands(evaluateHand(player.hand), evaluateHand(opponent.hand))
      loser == IF result > 0 THEN target ELSE IF result < 0 THEN s ELSE None
      r1 == IF loser = None THEN rm ELSE [rm EXCEPT !.players[loser + 1].folded = TRUE]
      r2 == [r1 EXCEPT !.players[s + 1].actedThisRound = TRUE]
  IN IF player.folded \/ opponent.folded THEN reject(rm, "one has folded")
     ELSE IF rm.currentRound < 2 THEN reject(rm, "round 1")
     ELSE IF player.currentBet < requiredActual THEN reject(rm, "stake not matched")
     ELSE finishAction([r2 EXCEPT !.currentTurn = getNextActivePlayerIndex(r2, s)])

\* Mutant: a challenger who holds the worse hand is not folded.
compareCards_ChallengerNeverFolds(rm, s, target) ==
  LET player == P(rm, s)
      opponent == P(rm, target)
      requiredActual == IF player.viewedCards THEN rm.minBet ELSE rm.minBet \div 2
      result == compareHands(evaluateHand(player.hand), evaluateHand(opponent.hand))
      loser == IF result > 0 THEN target ELSE None
      r1 == IF loser = None THEN rm ELSE [rm EXCEPT !.players[loser + 1].folded = TRUE]
      r2 == [r1 EXCEPT !.players[s + 1].actedThisRound = TRUE]
  IN IF player.folded \/ opponent.folded THEN reject(rm, "one has folded")
     ELSE IF rm.currentRound < 2 THEN reject(rm, "round 1")
     ELSE IF rm.currentTurn # s THEN reject(rm, "not your turn")
     ELSE IF player.currentBet < requiredActual THEN reject(rm, "stake not matched")
     ELSE finishAction([r2 EXCEPT !.currentTurn = getNextActivePlayerIndex(r2, s)])

compareCards(rm, s, target) ==
  LET player == P(rm, s)
      opponent == P(rm, target)
      requiredActual == IF player.viewedCards THEN rm.minBet ELSE rm.minBet \div 2
      result == compareHands(evaluateHand(player.hand), evaluateHand(opponent.hand))
      loser == IF result > 0 THEN target ELSE IF result < 0 THEN s ELSE None
      r1 == IF loser = None THEN rm ELSE [rm EXCEPT !.players[loser + 1].folded = TRUE]
      r2 == [r1 EXCEPT !.players[s + 1].actedThisRound = TRUE]
  IN IF player.folded \/ opponent.folded THEN reject(rm, "one has folded")
     ELSE IF rm.currentRound < 2 THEN reject(rm, "round 1")
     ELSE IF rm.currentTurn # s THEN reject(rm, "not your turn")
     ELSE IF player.currentBet < requiredActual THEN reject(rm, "stake not matched")
     ELSE finishAction([r2 EXCEPT !.currentTurn = getNextActivePlayerIndex(r2, s)])

startGame(rm, s, k) ==
  LET r1 == [rm EXCEPT !.gameState = "playing", !.tournamentRound = 1,
                       !.tournamentPlayers = Seats(rm),
                       !.startingPlayerCount = Len(rm.players),
                       !.handsPlayed = 0]
  IN IF s # Host THEN reject(rm, "host only")
     ELSE IF Len(rm.players) < 2 THEN reject(rm, "too few players")
     ELSE accept(startNewHand(r1, k))

joinRoom(rm) ==
  IF rm.gameState # "waiting" THEN reject(rm, "already started")
  ELSE IF Len(rm.players) >= RoomCapacity THEN reject(rm, "room full")
  ELSE accept([rm EXCEPT !.players = Append(rm.players, NewPlayer)])

\* The disconnect handler for a seat other than a host still waiting.
disconnect(rm, s) ==
  LET r1 == [rm EXCEPT !.players[s + 1].connected = FALSE]
  IN IF rm.gameState = "playing" THEN [r1 EXCEPT !.players[s + 1].folded = TRUE]
     ELSE r1

\* ------------------------------------------------------------ transitions
\* Declared amounts a client may send: just below the table minimum, the
\* minimum, a raise, the amount whose price leaves half an ante of the
\* balance, and more than the balance covers even at half price.
BetAmounts(rm, s) ==
  LET most == P(rm, s).money - Ante \div 2
  IN {rm.minBet - 1, rm.minBet, 2 * rm.minBet,
      IF P(rm, s).viewedCards THEN most ELSE 2 * most,
      2 * P(rm, s).money + 2}

Connected(rm) == {s \in Seats(rm) : P(rm, s).connected}

\* One handler run: r is the handler's outcome.
Handle(op, s, arg, r) ==
  LET t == timers + (IF r.sched THEN 1 ELSE 0)
  IN /\ room' = r.room
     /\ timers' = t
     /\ resolutions' = resolutions + (IF r.resolved THEN 1 ELSE 0)
     /\ lastOp' = IF r.ok THEN [op |-> op, seat |-> s, arg |-> arg, resolved |-> r.resolved]
                   ELSE lastOp
     /\ steps' = steps + (IF r.ok THEN 1 ELSE 0)
     /\ steps' <= MaxSteps
     /\ UNCHANGED <<roomOpen, handsDealt>>

Init ==
  /\ room = NewRoom
  /\ roomOpen = TRUE
  /\ timers = 0
  /\ handsDealt = 0
  /\ steps = 0
  /\ resolutions = 0
  /\ lastOp = [op |-> "create-room", seat |-> Host, arg |-> 0, resolved |-> FALSE]

JoinRoom ==
  /\ roomOpen
  /\ room.gameState = "waiting"
  /\ Handle("join-room", Len(room.players), 0, joinRoom(room))

JoinRoomLate ==
  /\ roomOpen
  /\ room.gameState # "waiting"
  /\ Handle("join-room", None, 0, joinRoom(room))

StartGame ==
  /\ roomOpen
  /\ \E s \in Connected(room), k \in Shuffles :
       LET r == startGame(room, s, k)
       IN /\ room' = r.room
          /\ steps' = steps + (IF r.ok THEN 1 ELSE 0)
          /\ steps' <= MaxSteps
          /\ handsDealt' = handsDealt + (IF r.ok THEN 1 ELSE 0)
          /\ resolutions' = (IF r.ok THEN 0 ELSE resolutions)
          /\ lastOp' = IF r.ok THEN [op |-> "start-game", seat |-> s, arg |-> 0,
                                      resolved |-> FALSE]
                        ELSE lastOp
          /\ UNCHANGED <<roomOpen, timers>>

ViewCards ==
  /\ roomOpen
  /\ \E s \in Connected(room) : Handle("view-cards", s, 0, viewCards(room, s))

PlaceBet ==
  /\ roomOpen
  /\ \E s \in Connected(room) : \E d \in BetAmounts(room, s) :
       Handle("place-bet", s, d, placeBet(room, s, d))

Fold ==
  /\ roomOpen
  /\ \E s \in Connected(room) : Handle("fold", s, 0, fold(room, s))

AllIn ==
  /\ roomOpen
  /\ \E s \in Connected(room) : Handle("all-in", s, 0, allIn(room, s))

CompareCards ==
  /\ roomOpen
  /\ \E s \in Connected(room), t \in Seats(room) :
       Handle("compare-cards", s, t, compareCards(room, s, t))

Disconnect ==
  /\ roomOpen
  /\ steps < MaxSteps
  /\ \E s \in Connected(room) :
       /\ room' = disconnect(room, s)
       /\ roomOpen' = ~(s = Host /\ room.gameState = "waiting")
       /\ lastOp' = [op |-> "disconnect", seat |-> s, arg |-> 0, resolved |-> FALSE]
       /\ steps' = steps + 1
       /\ UNCHANGED <<timers, handsDealt, resolutions>>

\* The callback afterHandEnded handed to setTimeout.
NextHandTimer ==
  /\ roomOpen
  /\ timers > 0
  /\ steps < MaxSteps
  /\ \E k \in Shuffles :
       LET rm == startNewHand(room, k)
       IN /\ room' = rm
          /\ steps' = steps + 1
          /\ timers' = timers - 1
          /\ handsDealt' = handsDealt + 1
          /\ resolutions' = 0
          /\ lastOp' = [op |-> "next-hand", seat |-> None, arg |-> 0, resolved |-> FALSE]
          /\ UNCHANGED <<roomOpen>>

Next ==
  \/ JoinRoom
  \/ JoinRoomLate
  \/ StartGame
  \/ ViewCards
  \/ PlaceBet
  \/ Fold
  \/ AllIn
  \/ CompareCards
  \/ Disconnect
  \/ NextHandTimer

Spec == Init /\ [][Next]_vars

\* ------------------------------------------- hands at the table, evaluated
\* evaluateHand, compareHands and resolveHand as functions of the hands two
\* players hold.  The table is the room right after start-game with two
\* players; their hands are any two disjoint 3-card hands of HandCards: six
\* ranks (2-3-4 and Q-K-A around the ace) in two suits, and a third suit for
\* three ranks so that three of a kind, and one rank pattern both as a flush
\* and in mixed suits, can be held.
HandRanks == {2, 3, 4, 12, 13, 14}

HandCards ==
  {Card(v, s) : v \in HandRanks, s \in {0, 1}} \cup {Card(2, 2), Card(13, 2), Card(14, 2)}

Hands == {h \in SUBSET HandCards : Cardinality(h) = 3}

Table == startGame(joinRoom(NewRoom).room, Host, 1).room

HandInit ==
  /\ \E a \in Hands : \E b \in {h \in Hands : h \cap a = {}} :
       room = [Table EXCEPT !.players[1].hand = SortedSeq(a),
                            !.players[2].hand = SortedSeq(b)]
  /\ roomOpen = TRUE
  /\ timers = 0
  /\ handsDealt = 1
  /\ steps = 0
  /\ resolutions = 0
  /\ lastOp = [op |-> "deal", seat |-> None, arg |-> 0, resolved |-> FALSE]

\* compareHands(evaluateHand(..), evaluateHand(..)) of seat 0's hand against
\* seat 1's, as the duel and the showdown sort call it; the result is kept
\* in lastOp.arg.
CompareHands ==
  /\ lastOp.op = "deal"
  /\ lastOp' = [op |-> "compare-hands", seat |-> 0,
                arg |-> compareHands(evaluateHand(P(room, 0).hand),
                                     evaluateHand(P(room, 1).hand)),
                resolved |-> FALSE]
  /\ UNCHANGED <<room, roomOpen, timers, handsDealt, steps, resolutions>>

\* resolveHand on the table: both players are contenders.
ResolveHand ==
  /\ lastOp.op = "deal"
  /\ room' = resolveHand(room)
  /\ resolutions' = resolutions + 1
  /\ lastOp' = [op |-> "resolve-hand", seat |-> None, arg |-> 0, resolved |-> TRUE]
  /\ UNCHANGED <<roomOpen, timers, handsDealt, steps>>

HandNext ==
  \/ CompareHands
  \/ ResolveHand

HandSpec == HandInit /\ [][HandNext]_vars

\* ================================================================ claims
\* What the formulas below read of a step: lastOp' names the intent that was
\* accepted in it (a rejected intent leaves lastOp alone), the unprimed
\* variables are the state the handler found.
currentBets(rm) == [i \in 1 .. Len(rm.players) |-> rm.players[i].currentBet]
DealsHand(op) == op \in {"start-game", "next-hand"}
Solvent(rm) == {s \in Seats(rm) : P(rm, s).money > 0}
Contenders(rm) == {s \in Seats(rm) : inHand(P(rm, s))}
Able(rm) == {s \in Seats(rm) : canAct(P(rm, s))}

\* C1: in every room state the pot is the sum of the players' currentBet; a
\* place-bet adds exactly the amount it charged, an all-in the balance it
\* wagered, and no other step but the start of a hand changes the pot, so
\* between two hand starts the pot never decreases.
C1_PotAccounting ==
  /\ [](room.pot = SumSeq(currentBets(room)))
  /\ [][~DealsHand(lastOp'.op) =>
          /\ room'.pot >= room.pot
          /\ room'.pot - room.pot =
               IF lastOp'.op = "place-bet"
               THEN actualAmountOf(P(room, lastOp'.seat), lastOp'.arg)
               ELSE IF lastOp'.op = "all-in" THEN P(room, lastOp'.seat).money
               ELSE 0]_vars

\* A hand was dealt, a bet and an all-in have been charged on top of the antes.
C1_Witness ==
  /\ handsDealt > 0
  /\ lastOp.op = "all-in"
  /\ room.betHistory # <<>>
  /\ room.pot > 2 * Ante + room.betHistory[1].actualAmount
  /\ room.pot = SumSeq(currentBets(room))

\* C2: an accepted place-bet of declared amount D by the player on turn
\* charges D if the player has viewed and floor(D/2) otherwise: that amount
\* leaves the balance and enters currentBet, the pot and the ledger, and the
\* table minimum becomes max(old minBet, D).  The balance afterwards also
\* holds the pot when the bet closed the hand in the bettor's favour.
C2_BetPricing ==
  [][lastOp'.op = "place-bet" =>
       LET s == lastOp'.seat
           D == lastOp'.arg
           before == P(room, s)
           after == P(room', s)
           A == IF before.viewedCards THEN D ELSE D \div 2
       IN /\ room.currentTurn = s
          /\ D >= room.minBet
          /\ before.money >= A
          /\ after.currentBet = before.currentBet + A
          /\ room'.pot = room.pot + A
          /\ room'.minBet = IF D > room.minBet THEN D ELSE room.minBet
          /\ room'.betHistory = Append(room.betHistory,
               [seat |-> s, declaredAmount |-> D, actualAmount |-> A,
                viewedCards |-> before.viewedCards])
          /\ after.actedThisRound \/ room'.currentRound = room.currentRound + 1
          /\ IF lastOp'.resolved /\ Contenders(room') = {s}
             THEN after.money = before.money - A + room'.pot
             ELSE after.money = before.money - A]_vars

\* The spec's example: minBet 100, an unviewed player declares 200, is
\* charged 100 and raises the minimum to 200.
C2_Witness ==
  /\ lastOp.op = "place-bet"
  /\ lastOp.arg = 2 * Ante
  /\ room.gameState = "playing"
  /\ room.minBet = 2 * Ante
  /\ Len(room.betHistory) = 1
  /\ room.betHistory[1].actualAmount = Ante
  /\ ~room.betHistory[1].viewedCards
  /\ P(room, lastOp.seat).money = StartMoney - 2 * Ante

\* The handler runs a connected seat can cause in the current room, each
\* with the condition under which the source returns an error.
IntentRuns(rm) ==
  UNION {
    {[run |-> placeBet(rm, s, d),
      out |-> rm.currentTurn # s,
      bad |-> \/ P(rm, s).folded \/ rm.currentTurn # s \/ d < rm.minBet
              \/ P(rm, s).money < (IF P(rm, s).viewedCards THEN d ELSE d \div 2)]
       : d \in BetAmounts(rm, s)}
    \cup {[run |-> fold(rm, s),
           out |-> rm.currentTurn # s,
           bad |-> P(rm, s).folded \/ rm.currentTurn # s]}
    \cup {[run |-> allIn(rm, s),
           out |-> rm.currentTurn # s,
           bad |-> P(rm, s).folded \/ P(rm, s).allIn \/ rm.currentTurn # s]}
    \cup {[run |-> viewCards(rm, s),
           out |-> rm.currentTurn # s,
           bad |-> P(rm, s).viewedCards \/ rm.currentTurn # s]}
    \cup {[run |-> compareCards(rm, s, t),
           out |-> rm.currentTurn # s,
           bad |-> \/ rm.currentRound < 2 \/ P(rm, s).folded \/ P(rm, t).folded
                   \/ rm.currentTurn # s
                   \/ P(rm, s).currentBet <
                        (IF P(rm, s).viewedCards THEN rm.minBet ELSE rm.minBet \div 2)]
            : t \in Seats(rm)}
    : s \in Connected(rm)}

\* C3: every intent that meets one of the rejection conditions is rejected,
\* and every rejected intent leaves the whole room as it found it (balances,
\* currentBet, pot, minBet, flags, ledger, round, currentTurn) and schedules
\* and resolves nothing.
C3_RejectedChangesNothing ==
  \A i \in IntentRuns(room) :
    /\ i.bad => ~i.run.ok
    /\ ~i.run.ok => (i.run.room = room /\ ~i.run.resolved /\ ~i.run.sched)

\* In round 2 of a hand the player on turn has not matched the stake a duel
\* requires, a balance does not cover a bet, and another player is out of turn.
C3_Witness ==
  /\ room.gameState = "playing"
  /\ room.currentRound >= 2
  /\ \E s \in Connected(room), t \in Connected(room) :
       /\ s # t
       /\ room.currentTurn = s
       /\ ~P(room, s).folded /\ ~P(room, t).folded
       /\ P(room, s).currentBet < room.minBet
       /\ ~compareCards(room, s, t).ok
       /\ ~placeBet(room, s, 2 * P(room, s).money + 2).ok
       /\ ~placeBet(room, s, room.minBet - 1).ok
       /\ ~fold(room, t).ok

\* C4: a place-bet, fold, all-in, compare-cards or view-cards intent from a
\* seat other than room.currentTurn is rejected and changes nothing, and each
\* such intent that was accepted came from the seat then on turn.
C4_OnlySeatOnTurnActs ==
  /\ [](\A i \in IntentRuns(room) :
          i.out => (~i.run.ok /\ i.run.room = room /\ ~i.run.sched))
  /\ [][lastOp'.op \in {"place-bet", "fold", "all-in", "compare-cards", "view-cards"}
          => lastOp'.seat = room.currentTurn]_vars

\* In a hand, the player on turn has just acted and stays on turn or handed
\* it over; every intent of another connected, unfolded, solvent player is
\* turned down.
C4_Witness ==
  /\ room.gameState = "playing"
  /\ lastOp.op \in {"place-bet", "view-cards"}
  /\ \E s \in Connected(room), t \in Connected(room) :
       /\ s # t
       /\ room.currentTurn = s
       /\ ~P(room, s).folded /\ ~P(room, t).folded
       /\ P(room, t).money > 0
       /\ ~fold(room, t).ok /\ ~allIn(room, t).ok /\ ~viewCards(room, t).ok
       /\ ~placeBet(room, t, room.minBet).ok

\* C5: right after startNewHand the pot is the sum of min(100, pre-ante
\* balance) over the players; a player who had money holds 3 cards, paid that
\* ante into currentBet and has the viewed, folded, all-in and acted flags
\* cleared; a player who had none is folded without cards; the dealt cards
\* are pairwise distinct cards of the 52-card deck; minBet is 100, the round
\* is 1 and the ledger is empty.
C5_NewHandState ==
  [][DealsHand(lastOp'.op) =>
       LET n == Len(room.players)
           pre(i) == room.players[i].money
           charged(i) == IF pre(i) < Ante THEN pre(i) ELSE Ante
           post(i) == room'.players[i]
           dealt == {<<i, c>> : i \in {j \in 1 .. n : pre(j) > 0}, c \in 1 .. 3}
       IN /\ Len(room'.players) = n
          /\ room'.pot = SumSeq([i \in 1 .. n |-> charged(i)])
          /\ \A i \in 1 .. n :
               IF pre(i) > 0
               THEN /\ Len(post(i).hand) = 3
                    /\ post(i).currentBet = charged(i)
                    /\ post(i).money = pre(i) - charged(i)
                    /\ ~post(i).viewedCards /\ ~post(i).folded
                    /\ ~post(i).allIn /\ ~post(i).actedThisRound
               ELSE /\ post(i).folded
                    /\ post(i).hand = <<>>
                    /\ post(i).currentBet = 0
                    /\ post(i).money = 0
          /\ \A x \in dealt : post(x[1]).hand[x[2]] \in 0 .. (DeckSize - 1)
          /\ \A x \in dealt, y \in dealt :
               x # y => post(x[1]).hand[x[2]] # post(y[1]).hand[y[2]]
          /\ room'.minBet = Ante
          /\ room'.currentRound = 1
          /\ room'.betHistory = <<>>]_vars

\* A second hand has just been dealt to a short-stacked player, who paid the
\* rest of the balance as ante.
C5_ShortStackWitness ==
  /\ lastOp.op = "next-hand"
  /\ \E s \in Seats(room) :
       /\ P(room, s).currentBet = Ante \div 2
       /\ P(room, s).money = 0
       /\ Len(P(room, s).hand) = 3
       /\ ~P(room, s).folded
  /\ room.pot = Ante + Ante \div 2

\* C6: when an accepted fold leaves exactly one player who is not folded and
\* has money, the hand is resolved in that same step: that player's balance
\* grows by exactly the whole pot and no other balance changes.
C6_FoldLeavesOneWinner ==
  [][(lastOp'.op = "fold" /\ Cardinality(Contenders(room')) = 1) =>
       /\ lastOp'.resolved
       /\ room'.pot = room.pot
       /\ \A s \in Seats(room) :
            P(room', s).money =
              P(room, s).money + (IF s \in Contenders(room') THEN room.pot ELSE 0)]_vars

\* In a hand nobody had yet won, a fold left one contender, who took the pot
\* of both antes and a bet.
C6_Witness ==
  /\ lastOp.op = "fold"
  /\ lastOp.resolved
  /\ resolutions = 1
  /\ room.gameState = "playing"
  /\ room.pot > 2 * Ante
  /\ \E w \in Seats(room) :
       /\ Contenders(room) = {w}
       /\ w # lastOp.seat
       /\ P(room, w).money = StartMoney - P(room, w).currentBet + room.pot

\* C7 (as claimed): while the room is playing, the hand is unresolved and some
\* player is able to act, currentTurn is the seat of a player able to act.
C7_TurnIsAbleSeat ==
  (room.gameState = "playing" /\ resolutions = 0 /\ Able(room) # {}) =>
     room.currentTurn \in Able(room)

\* C8 (as claimed): a step that resolves a hand ends the tournament exactly
\* when at most one player has money left or handsPlayed has reached
\* startingPlayerCount; otherwise the room stays playing and exactly one
\* next-hand start is scheduled.
C8_TournamentEndRule ==
  [][lastOp'.resolved =>
       LET capReached == /\ room'.handsPlayed # Undefined
                         /\ room'.startingPlayerCount # Undefined
                         /\ room'.handsPlayed >= room'.startingPlayerCount
       IN IF Cardinality(Solvent(room')) <= 1 \/ capReached
          THEN room'.gameState = "ended" /\ timers' = timers
          ELSE room'.gameState = "playing" /\ timers' = timers + 1]_vars

\* C9 (as claimed): the delayed next-hand callback never starts a hand in a
\* room whose tournament has ended.
C9_NoHandAfterEnd ==
  [][lastOp'.op = "next-hand" => room.gameState # "ended"]_vars

\* C10 (as claimed): a disconnect of a seated, unfolded player while the room
\* is playing leaves the room as that player's fold would: folded and acted,
\* the turn advanced if it was theirs, then the round and hand checks.
foldEffect(rm, s) ==
  LET r1 == [rm EXCEPT !.players[s + 1].folded = TRUE,
                       !.players[s + 1].actedThisRound = TRUE,
                       !.players[s + 1].connected = FALSE]
  IN finishAction([r1 EXCEPT !.currentTurn =
                     IF rm.currentTurn = s THEN getNextActivePlayerIndex(r1, s)
                     ELSE rm.currentTurn])

C10_DisconnectIsFold ==
  [][(lastOp'.op = "disconnect" /\ room.gameState = "playing"
        /\ ~P(room, lastOp'.seat).folded) =>
       /\ room' = foldEffect(room, lastOp'.seat).room
       /\ timers' = timers + (IF foldEffect(room, lastOp'.seat).sched THEN 1 ELSE 0)]_vars

\* C11 (as claimed): the phase only moves forward along waiting -> playing ->
\* ended: waiting becomes playing only by the host's start-game with at least
\* two players, playing becomes ended only in a step that resolves a hand,
\* waiting never becomes ended, and ended is never left.
phaseRank(g) == IF g = "waiting" THEN 0 ELSE IF g = "playing" THEN 1 ELSE 2

C11_PhaseForwardOnly ==
  [][/\ phaseRank(room'.gameState) >= phaseRank(room.gameState)
     /\ (room.gameState = "waiting" /\ room'.gameState # "waiting") =>
          /\ room'.gameState = "playing"
          /\ lastOp'.op = "start-game"
          /\ lastOp'.seat = Host
          /\ Len(room.players) >= 2
     /\ (room.gameState = "playing" /\ room'.gameState = "ended") =>
          /\ lastOp'.resolved
          /\ tournamentEnded(room')]_vars

\* C12 (as claimed): in a step that ends the tournament the declared champion
\* is the only seated player with money, or nobody; the ranking lists every
\* seated player once, in descending order of money.
C12_ChampionIsSoleSurvivor ==
  [][(lastOp'.resolved /\ room'.gameState = "ended") =>
       LET champ == champion(room')
           rank == rankings(room')
       IN /\ champ = None \/ Solvent(room') = {champ}
          /\ Len(rank) = Len(room'.players)
          /\ {rank[i] : i \in 1 .. Len(rank)} = Seats(room')
          /\ \A i \in 1 .. (Len(rank) - 1) :
               P(room', rank[i]).money >= P(room', rank[i + 1]).money]_vars

\* C13 (as claimed): when resolveHand runs with several contenders, the
\* players credited are exactly those whose hand no contender's hand beats
\* under compareHands; N > 1 of them get floor(pot / N) each, a single one
\* the whole pot, and no other balance changes.
C13_ShowdownCreditsBestHands ==
  [][(lastOp'.op = "resolve-hand" /\ Cardinality(Contenders(room)) > 1) =>
       LET ev(s) == evaluateHand(P(room, s).hand)
           best == {s \in Contenders(room) :
                      \A t \in Contenders(room) : compareHands(ev(s), ev(t)) >= 0}
           N == Cardinality(best)
           share == IF N > 1 THEN room.pot \div N ELSE room.pot
       IN \A s \in Seats(room) :
            P(room', s).money = P(room, s).money + (IF s \in best THEN share ELSE 0)]_vars

\* The category of a 3-card hand as the rules name it, numbered by its place
\* in the order high card, pair, straight, flush, straight flush, three of a
\* kind.
category(hand) ==
  LET ranks == {cardValue(hand[i]) : i \in 1 .. 3}
      suits == {cardSuit(hand[i]) : i \in 1 .. 3}
      run == \/ Cardinality(ranks) = 3 /\ Max(ranks) - Min(ranks) = 2
             \/ ranks = {14, 2, 3}
  IN IF Cardinality(ranks) = 1 THEN 6
     ELSE IF Cardinality(suits) = 1 /\ run THEN 5
     ELSE IF Cardinality(suits) = 1 THEN 4
     ELSE IF run THEN 3
     ELSE IF Cardinality(ranks) = 2 THEN 2
     ELSE 1

\* C14: compareHands of two evaluated 3-card hands is decided by the category
\* (high card < pair < straight < flush < straight flush < three of a kind)
\* and, within one category, by the tie-break value; it is 0 only when both
\* are equal, 0 for a hand against itself, and compareHands(x, y) =
\* -compareHands(y, x).
C14_HandOrder ==
  lastOp.op = "compare-hands" =>
    LET a == P(room, 0).hand
        b == P(room, 1).hand
        x == evaluateHand(a)
        y == evaluateHand(b)
        c == lastOp.arg
    IN /\ category(a) > category(b) => c = 1
       /\ category(a) < category(b) => c = -1
       /\ category(a) = category(b) =>
            c = (IF x.value > y.value THEN 1 ELSE IF x.value < y.value THEN -1 ELSE 0)
       /\ c = 0 <=> (category(a) = category(b) /\ x.value = y.value)
       /\ compareHands(y, x) = -c
       /\ compareHands(x, x) = 0

\* Three of a kind have been compared with a straight flush and won,
\* although their tie-break value is the lower one.
C14_Witness ==
  /\ lastOp.op = "compare-hands"
  /\ lastOp.arg = 1
  /\ category(P(room, 0).hand) = 6
  /\ category(P(room, 1).hand) = 5
  /\ evaluateHand(P(room, 0).hand).value < evaluateHand(P(room, 1).hand).value

\* C15 (as claimed): a hand of ranks A-2-3 is a straight, a straight flush
\* when of one suit, and the lowest of its category: against any other
\* straight (straight flush) its tie-break value is lower and it loses.
ranksOf(hand) == {cardValue(hand[i]) : i \in 1 .. 3}

C15_AceLowStraight ==
  (lastOp.op = "compare-hands" /\ ranksOf(P(room, 0).hand) = {14, 2, 3}) =>
    LET a == P(room, 0).hand
        b == P(room, 1).hand
    IN /\ category(a) \in {3, 5}
       /\ evaluateHand(a).type = category(a)
       /\ (category(b) = category(a) /\ ranksOf(b) # {14, 2, 3}) =>
            /\ evaluateHand(a).value < evaluateHand(b).value
            /\ lastOp.arg = -1

\* C16: for every room and every seat f, getNextActivePlayerIndex(room, f) is
\* -1 exactly when no seat holds a player who is not folded, has money and is
\* not all-in; otherwise it is such a seat, and no seat that the cyclic scan
\* from f + 1 meets before it (f itself comes last) is one.
C16_NextActiveSeat ==
  \A f \in Seats(room) :
    LET n == Len(room.players)
        r == getNextActivePlayerIndex(room, f)
        eligible(s) == /\ ~P(room, s).folded
                       /\ P(room, s).money > 0
                       /\ ~P(room, s).allIn
        dist == IF r = f THEN n ELSE (r - f + n) % n
    IN /\ r = -1 <=> ~(\E s \in Seats(room) : eligible(s))
       /\ r # -1 =>
            /\ r \in Seats(room)
            /\ eligible(r)
            /\ \A k \in 1 .. (dist - 1) : ~eligible((f + k) % n)

\* With three players at the table, the one after the bettor had folded by
\* disconnecting or could not act, and the turn passed over that seat.
C16_Witness ==
  /\ Len(room.players) >= 3
  /\ room.gameState = "playing"
  /\ lastOp.op = "place-bet"
  /\ ~lastOp.resolved
  /\ room.currentTurn = getNextActivePlayerIndex(room, lastOp.seat)
  /\ room.currentTurn \notin {None, lastOp.seat, (lastOp.seat + 1) % Len(room.players)}
  /\ ~canAct(P(room, (lastOp.seat + 1) % Len(room.players)))

\* C17: an accepted compare-cards came from the seat on turn, in round 2 or
\* later, neither party folded and the challenger's currentBet at least
\* minBet (viewed) or floor(minBet / 2) (not viewed).  It folds exactly the
\* party whose hand compareHands ranks strictly lower, nobody on a draw;
\* pot and minBet stay; the challenger is marked as having acted and the turn
\* moves to the next able seat after the challenger, unless the duel closed
\* the round, which clears the marks and hands the turn to the opener.
C17_Duel ==
  [][lastOp'.op = "compare-cards" =>
       LET s == lastOp'.seat
           t == lastOp'.arg
           c == compareHands(evaluateHand(P(room, s).hand), evaluateHand(P(room, t).hand))
           losers == IF c > 0 THEN {t} ELSE IF c < 0 THEN {s} ELSE {}
       IN /\ room.currentTurn = s
          /\ ~P(room, s).folded /\ ~P(room, t).folded
          /\ room.currentRound >= 2
          /\ P(room, s).currentBet >=
               (IF P(room, s).viewedCards THEN room.minBet ELSE room.minBet \div 2)
          /\ \A u \in Seats(room) :
               P(room', u).folded <=> (P(room, u).folded \/ u \in losers)
          /\ room'.pot = room.pot
          /\ room'.minBet = room.minBet
          /\ IF room'.currentRound = room.currentRound
             THEN /\ P(room', s).actedThisRound
                  /\ room'.currentTurn = getNextActivePlayerIndex(room', s)
             ELSE /\ room'.currentRound = room.currentRound + 1
                  /\ room'.currentTurn = getFirstPlayerAfterDealer(room')]_vars

\* A duel in round 2 that the challenger lost: the challenger is folded, the
\* challenged player is not.
C17_Witness ==
  /\ lastOp.op = "compare-cards"
  /\ lastOp.seat # lastOp.arg
  /\ room.gameState = "playing"
  /\ room.currentRound = 2
  /\ P(room, lastOp.seat).folded
  /\ ~P(room, lastOp.arg).folded
  /\ compareHands(evaluateHand(P(room, lastOp.seat).hand),
                  evaluateHand(P(room, lastOp.arg).hand)) < 0

\* C18: an accepted all-in leaves the player with balance 0 and the all-in
\* flag; a player with the flag has balance 0 in every state, and in every
\* step but the start of a hand keeps the flag and the balance 0: no part of
\* the pot is ever credited to that player, whatever the cards.
C18_AllInNeverCredited ==
  /\ [](\A s \in Seats(room) : P(room, s).allIn => P(room, s).money = 0)
  /\ [][lastOp'.op = "all-in" =>
          (P(room', lastOp'.seat).allIn /\ P(room', lastOp'.seat).money = 0)]_vars
  /\ [][~DealsHand(lastOp'.op) =>
          \A s \in Seats(room) :
            P(room, s).allIn => (P(room', s).allIn /\ P(room', s).money = 0)]_vars

\* A player went all-in holding the better hand; that closed the hand and
\* the whole pot went to the other player.
C18_Witness ==
  /\ lastOp.op = "all-in"
  /\ lastOp.resolved
  /\ room.gameState = "ended"
  /\ handsDealt = 1
  /\ \E s \in Seats(room), w \in Seats(room) :
       /\ s = lastOp.seat /\ w # s
       /\ P(room, s).allIn /\ P(room, s).money = 0
       /\ compareHands(evaluateHand(P(room, s).hand), evaluateHand(P(room, w).hand)) > 0
       /\ P(room, w).money = StartMoney - P(room, w).currentBet + room.pot
       /\ room.pot > StartMoney

\* C19 (as claimed): once the tournament has been started, handsPlayed never
\* exceeds startingPlayerCount.
C19_HandCap ==
  (room.handsPlayed # Undefined /\ room.startingPlayerCount # Undefined) =>
     room.handsPlayed <= room.startingPlayerCount

\* C20: an accepted place-bet, fold, all-in or compare-cards raises
\* currentRound by exactly one if and only if, once the action is applied,
\* every player able to act (not folded, money > 0, not all-in) has acted
\* this round and more than one player not folded and with money remains;
\* then every acted mark is cleared and the turn goes to the first such
\* player after the dealer.  Otherwise the round and the other players'
\* marks stay as they were.
C20_RoundAdvance ==
  [][lastOp'.op \in {"place-bet", "fold", "all-in", "compare-cards"} =>
       LET s == lastOp'.seat
           n == Len(room.players)
           acted(u) == u = s \/ P(room, u).actedThisRound
           complete == \A u \in Seats(room) : canAct(P(room', u)) => acted(u)
           several == Cardinality(Contenders(room')) > 1
           opener == room'.currentTurn
           gap == (opener - room.dealerIndex + n) % n
       IN IF complete /\ several
          THEN /\ room'.currentRound = room.currentRound + 1
               /\ \A u \in Seats(room) : ~P(room', u).actedThisRound
               /\ opener \in Contenders(room')
               /\ \A k \in 1 .. ((IF gap = 0 THEN n ELSE gap) - 1) :
                    (room.dealerIndex + k) % n \notin Contenders(room')
          ELSE /\ room'.currentRound = room.currentRound
               /\ \A u \in Seats(room) \ {s} :
                    P(room', u).actedThisRound = P(room, u).actedThisRound]_vars

\* Three players each bet once: the third bet closed round 1, the marks are
\* cleared and round 2 opens with the player after the dealer.
C20_Witness ==
  /\ Len(room.players) >= 3
  /\ room.gameState = "playing"
  /\ lastOp.op = "place-bet"
  /\ ~lastOp.resolved
  /\ room.currentRound = 2
  /\ Len(room.betHistory) = Len(room.players)
  /\ \A u \in Seats(room) : ~P(room, u).actedThisRound /\ canAct(P(room, u))
  /\ room.currentTurn = (room.dealerIndex + 1) % Len(room.players)

\* C21 (as claimed): in every room state the dealer index is a valid seat.
C21_DealerAlwaysValid ==
  room.dealerIndex \in Seats(room)

\* C21 (amended): the dealer index is -1 until the first hand is dealt and a
\* valid seat from then on; each startNewHand advances it by exactly one seat
\* modulo the seat count (from -1 to seat 0 at the first hand), and nothing
\* else changes it.
C21_DealerRotation ==
  /\ [](IF handsDealt = 0 THEN room.dealerIndex = -1
        ELSE room.dealerIndex \in Seats(room))
  /\ [][IF DealsHand(lastOp'.op)
        THEN /\ Len(room'.players) = Len(room.players)
             /\ room'.dealerIndex =
                  (IF room.dealerIndex + 1 = Len(room.players) THEN 0
                   ELSE room.dealerIndex + 1)
        ELSE room'.dealerIndex = room.dealerIndex]_vars

\* With two players a third hand has been dealt: the dealer index wrapped
\* from the last seat back to seat 0.
C21_Witness ==
  /\ DealsHand(lastOp.op)
  /\ handsDealt > Len(room.players)
  /\ room.dealerIndex = 0

\* C22 (as claimed): no money is created.  The balances never sum to more
\* than StartMoney per seated player; while a hand is unresolved, balances
\* plus pot stay what they were; and once a hand is resolved its pot is not
\* credited again: until the next hand is dealt no step raises the balances.
balances(rm) == SumSeq([i \in 1 .. Len(rm.players) |-> rm.players[i].money])

C22_NoMoneyCreated ==
  /\ [](balances(room) <= StartMoney * Len(room.players))
  /\ [][(handsDealt > 0 /\ resolutions' = 0 /\ ~DealsHand(lastOp'.op)) =>
          balances(room') + room'.pot = balances(room) + room.pot]_vars
  /\ [][(resolutions > 0 /\ ~DealsHand(lastOp'.op)) =>
          balances(room') <= balances(room)]_vars

\* C23: a player with the all-in flag has money = 0 in every state; hence
\* every step that resolves a hand does so with at most one contender (not
\* folded, money > 0), nobody but that contender gains money in it, and
\* the comparison and pot split among several winners never run.
C23_SingleContenderAtResolution ==
  /\ [](\A s \in Seats(room) :
          P(room, s).allIn => (P(room, s).money = 0 /\ s \notin Contenders(room)))
  /\ [][lastOp'.resolved =>
          /\ Cardinality(Contenders(room')) <= 1
          /\ \A u \in Seats(room) \ Contenders(room') :
               P(room', u).money <= P(room, u).money]_vars

\* Of three players two went all-in; the second all-in closed the hand with
\* the third player as only contender, whatever the cards.
C23_Witness ==
  /\ lastOp.op = "all-in"
  /\ lastOp.resolved
  /\ resolutions = 1
  /\ handsDealt = 1
  /\ Cardinality({s \in Seats(room) : P(room, s).allIn}) = 2
  /\ Cardinality(Contenders(room)) = 1
  /\ \A s \in Seats(room) : ~P(room, s).folded

\* C24 (as claimed), in the form a finite run refutes: no playing room is
\* stuck.  While the room is playing, a next-hand start is pending or some
\* connected player is entitled to act: a fold, an all-in, a bet or a duel
\* of that player would be accepted.  (From a stuck room the phase ended is
\* never reached by the steps the claim counts on.)
entitled(rm, s) ==
  \/ fold(rm, s).ok
  \/ allIn(rm, s).ok
  \/ \E d \in BetAmounts(rm, s) : placeBet(rm, s, d).ok
  \/ \E t \in Seats(rm) : compareCards(rm, s, t).ok

C24_NeverStuck ==
  room.gameState = "playing" =>
    (timers > 0 \/ \E s \in Connected(room) : entitled(room, s))

====
